---- MODULE Spec2Model ----
(***************************************************************************)
(* magic-images: the conversion pipeline of commands/convert (convertImages *)
(* and its helpers) over a small file system.                               *)
(*                                                                          *)
(* Strings are sequences of one-character strings, paths are sequences of   *)
(* names (relative to the working directory, <<>>), so that toLowerCase,    *)
(* parseInt, endsWith, basename and extname are computed, not assumed.      *)
(* Every await of the code is one atomic step of an invocation.             *)
(***************************************************************************)
EXTENDS Integers, Sequences, FiniteSets, TLC

(***************************************************************************)
(* Bounds of the model.                                                     *)
(***************************************************************************)
\* Date.now() ranges over 0..MaxClock
MaxClock == 1

(***************************************************************************)
(* Program constants.                                                       *)
(***************************************************************************)
DefaultQuality == 95
MinQuality == 1
MaxQuality == 100
HeaderLen == 12
Radix == 10

(***************************************************************************)
(* Strings.                                                                 *)
(***************************************************************************)
UpperChars == <<"A","B","C","D","E","F","G","H","I","J","K","L","M",
                "N","O","P","Q","R","S","T","U","V","W","X","Y","Z">>
LowerChars == <<"a","b","c","d","e","f","g","h","i","j","k","l","m",
                "n","o","p","q","r","s","t","u","v","w","x","y","z">>
DigitChars == <<"0","1","2","3","4","5","6","7","8","9">>
WhiteSpace == {" "}

Range(s) == {s[k] : k \in DOMAIN s}

IndexIn(c, chars) == CHOOSE k \in DOMAIN chars : chars[k] = c

\* String.prototype.toLowerCase, one character
LowerChar(c) ==
  IF c \in Range(UpperChars) THEN LowerChars[IndexIn(c, UpperChars)] ELSE c

\* String.prototype.toLowerCase
ToLowerCase(s) == [k \in DOMAIN s |-> LowerChar(s[k])]

\* String.prototype.startsWith
StartsWith(s, prefix) ==
  /\ Len(prefix) <= Len(s)
  /\ SubSeq(s, 1, Len(prefix)) = prefix

\* String.prototype.endsWith
EndsWith(s, suffix) ==
  /\ Len(suffix) <= Len(s)
  /\ SubSeq(s, Len(s) - Len(suffix) + 1, Len(s)) = suffix

IsDigit(c) == c \in Range(DigitChars)
DigitValue(c) == IndexIn(c, DigitChars) - 1

RECURSIVE SkipWhiteSpace(_)
SkipWhiteSpace(s) ==
  IF s # <<>> /\ Head(s) \in WhiteSpace THEN SkipWhiteSpace(Tail(s)) ELSE s

\* the value of the longest prefix of decimal digits of s, continuing from acc
RECURSIVE DigitsValue(_, _)
DigitsValue(s, acc) ==
  IF s # <<>> /\ IsDigit(Head(s))
  THEN DigitsValue(Tail(s), acc * Radix + DigitValue(Head(s)))
  ELSE acc

NaN == [nan |-> TRUE, num |-> 0]
Number(n) == [nan |-> FALSE, num |-> n]
isNaN(x) == x.nan

\* parseInt(string, 10): leading white space is skipped, one sign is read,
\* then the longest prefix of digits; NaN when there is no digit
parseInt(string) ==
  LET t == SkipWhiteSpace(string)
      neg == t # <<>> /\ Head(t) = "-"
      u == IF t # <<>> /\ Head(t) \in {"+", "-"} THEN Tail(t) ELSE t
  IN IF u = <<>> \/ ~IsDigit(Head(u)) THEN NaN
     ELSE Number(IF neg THEN 0 - DigitsValue(u, 0) ELSE DigitsValue(u, 0))

\* Number.prototype.toString for a natural number
RECURSIVE ToDecimal(_)
ToDecimal(n) ==
  IF n < Radix THEN <<DigitChars[n + 1]>>
  ELSE ToDecimal(n \div Radix) \o <<DigitChars[(n % Radix) + 1]>>

(***************************************************************************)
(* Validation.                                                              *)
(***************************************************************************)
JPG == <<"j","p","g">>
JPEG == <<"j","p","e","g">>
PNG == <<"p","n","g">>
WEBP == <<"w","e","b","p">>
GIF == <<"g","i","f">>

\* a plausible slip: one more format in the list
supportedFormatsWithGif == {JPG, JPEG, PNG, WEBP, GIF}

supportedFormats == {JPG, JPEG, PNG, WEBP}

validateFormat(format) == ToLowerCase(format) \in supportedFormats

validateQuality(quality) ==
  LET num == parseInt(quality)
  IN ~isNaN(num) /\ num.num >= MinQuality /\ num.num <= MaxQuality

IsJpegTarget(format) == format = JPG \/ format = JPEG

(***************************************************************************)
(* The format sniffer the pipeline calls.                                   *)
(***************************************************************************)
\* buffer[k] of a Buffer: undefined (here -1) past its end
ByteAt(buffer, k) == IF k + 1 <= Len(buffer) THEN buffer[k + 1] ELSE -1

Slice(buffer, n) == SubSeq(buffer, 1, IF Len(buffer) < n THEN Len(buffer) ELSE n)

SniffHeader(buffer) ==
  LET header == Slice(buffer, HeaderLen)
  IN IF ByteAt(header, 0) = 255 /\ ByteAt(header, 1) = 216 /\ ByteAt(header, 2) = 255
     THEN "jpg"
     ELSE IF /\ ByteAt(header, 0) = 137 /\ ByteAt(header, 1) = 80
             /\ ByteAt(header, 2) = 78 /\ ByteAt(header, 3) = 71
             /\ ByteAt(header, 4) = 13 /\ ByteAt(header, 5) = 10
             /\ ByteAt(header, 6) = 26 /\ ByteAt(header, 7) = 10
     THEN "png"
     ELSE IF /\ ByteAt(header, 0) = 82 /\ ByteAt(header, 1) = 73
             /\ ByteAt(header, 2) = 70 /\ ByteAt(header, 3) = 70
             /\ ByteAt(header, 8) = 87 /\ ByteAt(header, 9) = 69
             /\ ByteAt(header, 10) = 66 /\ ByteAt(header, 11) = 80
     THEN "webp"
     ELSE "null"

\* a plausible slip: no catch clause around the read
ReadFailureRaised == "raised"

\* the catch clause of getImageFormat: the error is logged, null is returned
OnReadFailure == "null"

\* getImageFormat(filePath): readFile fails on a missing path and on a
\* directory, and the failure is turned into null
getImageFormat(fileSystem, filePath) ==
  IF filePath \in DOMAIN fileSystem THEN SniffHeader(fileSystem[filePath])
  ELSE OnReadFailure

(***************************************************************************)
(* The format sniffer of utils/image, the one the unit tests call.          *)
(***************************************************************************)
\* fileHandle.read(buffer, 0, 12, 0) into Buffer.alloc(12): the bytes read,
\* then zeros
BytesRead(content) == IF Len(content) < HeaderLen THEN Len(content) ELSE HeaderLen

Filled(content, k) == IF k + 1 <= BytesRead(content) THEN content[k + 1] ELSE 0

MinBytes == 4

\* a plausible slip: the signatures are compared whatever was read
MagicOfAnyLength(content) ==
  IF Filled(content, 0) = 255 /\ Filled(content, 1) = 216 THEN "jpg"
  ELSE IF /\ Filled(content, 0) = 137 /\ Filled(content, 1) = 80
          /\ Filled(content, 2) = 78 /\ Filled(content, 3) = 71
  THEN "png"
  ELSE IF /\ Filled(content, 0) = 82 /\ Filled(content, 1) = 73
          /\ Filled(content, 2) = 70 /\ Filled(content, 3) = 70
          /\ BytesRead(content) >= HeaderLen
          /\ Filled(content, 8) = 87 /\ Filled(content, 9) = 69
          /\ Filled(content, 10) = 66 /\ Filled(content, 11) = 80
  THEN "webp"
  ELSE "null"

\* the body of the inner try block: the length check, then the signatures
Magic(content) ==
  IF BytesRead(content) < MinBytes THEN "null"
  ELSE IF Filled(content, 0) = 255 /\ Filled(content, 1) = 216 THEN "jpg"
  ELSE IF /\ Filled(content, 0) = 137 /\ Filled(content, 1) = 80
          /\ Filled(content, 2) = 78 /\ Filled(content, 3) = 71
  THEN "png"
  ELSE IF /\ Filled(content, 0) = 82 /\ Filled(content, 1) = 73
          /\ Filled(content, 2) = 70 /\ Filled(content, 3) = 70
          /\ BytesRead(content) >= HeaderLen
          /\ Filled(content, 8) = 87 /\ Filled(content, 9) = 69
          /\ Filled(content, 10) = 66 /\ Filled(content, 11) = 80
  THEN "webp"
  ELSE "null"

\* the catch clause of the sniffer of utils/image
OnOpenFailure == "null"

\* what is at a path: a readable file, nothing, a directory, a file that
\* cannot be opened
Kinds == {"file", "missing", "directory", "unreadable"}

\* getImageFormat of utils/image: open fails on a missing or unreadable
\* path, read fails on a directory (the handle is closed, then the catch
\* clause takes the error)
utilsGetImageFormat(kind, content) ==
  IF kind = "file" THEN Magic(content) ELSE OnOpenFailure

\* getImageFormat of the pipeline on the same path: readFile fails on
\* everything but a readable file
pipelineGetImageFormat(kind, content) ==
  IF kind = "file" THEN SniffHeader(content) ELSE OnReadFailure

(***************************************************************************)
(* Paths (POSIX).                                                           *)
(***************************************************************************)
Front(s) == SubSeq(s, 1, Len(s) - 1)
Last(s) == s[Len(s)]

IsPrefix(p, q) == Len(p) <= Len(q) /\ SubSeq(q, 1, Len(p)) = p

\* the proper ancestors of a path and the path itself, the root excluded
Ancestors(p) == {SubSeq(p, 1, k) : k \in 1..Len(p)}

\* position of the last "." of a name, 0 when there is none
LastDot(name) ==
  IF \E k \in DOMAIN name : name[k] = "."
  THEN CHOOSE k \in DOMAIN name :
         name[k] = "." /\ \A j \in DOMAIN name : name[j] = "." => j <= k
  ELSE 0

\* path.extname of a file name: from the last "." on, "" when the name has
\* no "." or only a leading one
extname(name) ==
  LET d == LastDot(name)
  IN IF d <= 1 THEN <<>>
     ELSE IF name = <<".", ".">> THEN <<>>
     ELSE SubSeq(name, d, Len(name))

\* path.basename(path, ext) on the last name of the path
basename(name, ext) ==
  IF ext # <<>> /\ EndsWith(name, ext) /\ name # ext
  THEN SubSeq(name, 1, Len(name) - Len(ext))
  ELSE IF ext # <<>> /\ name = ext THEN <<>> ELSE name

\* path.relative(from, to) for a path at or below from
relative(from, to) == SubSeq(to, Len(from) + 1, Len(to))

\* path.dirname of a relative path: <<>> stands for "."
dirname(rel) == IF Len(rel) <= 1 THEN <<>> ELSE Front(rel)

join(dir, rel) == dir \o rel

(***************************************************************************)
(* File contents: the leading bytes of a file, all the pipeline ever reads. *)
(***************************************************************************)
PngBytes == <<137, 80, 78, 71, 13, 10, 26, 10, 0, 0, 0, 13>>
JpgBytes == <<255, 216, 255, 224, 0, 16, 74, 70, 73, 70, 0, 1>>
WebpBytes == <<82, 73, 70, 70, 40, 0, 0, 0, 87, 69, 66, 80>>
TextBytes == <<84, 104, 105, 115, 32, 105, 115, 32, 97, 32, 116, 101>>
ZipBytes == <<80, 75, 3, 4>>

(***************************************************************************)
(* Names and paths of the file system the model runs on.                    *)
(***************************************************************************)
TmpPrefix == <<".","m","a","g","i","c","-","i","m","a","g","e","s","-","t","m","p","-">>
ZipExt == <<".","z","i","p">>
DefaultOutput == << <<"o","u","t","p","u","t">> >>
DefaultArchive == << <<"o","u","t","p","u","t",".","z","i","p">> >>

NameIn == <<"i","n">>
NameSub == <<"s","u","b">>
NameA == <<"a",".","p","n","g">>
NameB == <<"b",".","w","e","b","p">>
NameDeep == <<"d","e","e","p">>
NameC == <<"c",".","j","p","g">>
NameOut == <<"o","u","t">>
NameNoDir == <<"n","o","d","i","r">>
NameRes == <<"r","e","s">>
NameMissing == <<"m","i","s","s","i","n","g">>

DirIn == <<NameIn>>
DirSub == <<NameIn, NameSub>>
FileA == <<NameIn, NameA>>
FileB == <<NameIn, NameSub, NameB>>
DirDeep == <<NameIn, NameSub, NameDeep>>
FileC == <<NameIn, NameSub, NameDeep, NameC>>
DirOut == <<NameOut>>
PathRes == <<NameNoDir, NameRes>>
PathMissing == <<NameMissing>>

\* the workspace name of convertImages for a clock value
TempDirAt(t) == <<TmpPrefix \o ToDecimal(t)>>

Invocations == {"A", "B"}

VARIABLES
  inv,     \* inv[i]: the locals and the position of invocation i of convertImages
  dirs,    \* the directories of the file system (paths)
  files,   \* the regular files of the file system: path -> leading bytes
  now,     \* Date.now()
  dirs0,   \* the directories when the invocations started (history)
  files0,  \* the regular files when the invocations started (history)
  sniffed  \* a path given to the two getImageFormat functions, and their results

vars == <<inv, dirs, files, now, dirs0, files0, sniffed>>

Operations == {"stat", "access", "prompt", "mkdir", "readdir", "sniff", "encode", "zip", "rm"}

NoCalls == [op \in Operations |-> 0]

\* one more call of an operation of the outside world
Call(calls, op) == [calls EXCEPT ![op] = @ + 1]

\* the state of an invocation before its first step
NewInvocation(pc, inputPath, options) ==
  [pc |-> pc, inputPath |-> inputPath, options |-> options,
   format |-> <<>>, quality |-> DefaultQuality, isFile |-> FALSE,
   tempDir |-> <<>>, effectiveOutputDir |-> <<>>, outputDir |-> <<>>,
   currentDir |-> <<>>, stack |-> <<>>, filePath |-> <<>>, baseInputDir |-> <<>>,
   outputFileDir |-> <<>>, outputPath |-> <<>>, error |-> "None",
   calls |-> NoCalls, declined |-> FALSE, handed |-> <<>>, encoded |-> <<>>,
   written |-> <<>>, archived |-> FALSE]

Exists(path) == path = <<>> \/ path \in dirs \/ path \in DOMAIN files
IsDirectory(path) == path = <<>> \/ path \in dirs

Terminated(i) == inv[i].pc \in {"done", "failed", "crashed", "off"}

(***************************************************************************)
(* Control flow helpers.                                                    *)
(***************************************************************************)
\* a plausible slip: the error leaves convertImages without the cleanup
ThrowTargetNoCleanup(r) == "failed"

\* where a thrown error lands: inside the try block of archive mode the
\* catch clause removes the workspace and rethrows; elsewhere it leaves
\* convertImages at once
ThrowTarget(r) ==
  IF r.options.zip /\ r.pc \notin {"start", "stat"} THEN "rm_err" ELSE "failed"

Throw(r, err, op) ==
  [r EXCEPT !.pc = ThrowTarget(r), !.error = err, !.calls = Call(@, op)]

\* after the conversion of the input: the archive in archive mode, else the end
AfterConversion(r) == IF r.options.zip THEN "zip" ELSE "done"

\* after ensureOutputDirectory returned
AfterEnsure(r) ==
  IF r.isFile THEN [r EXCEPT !.pc = "single"]
  ELSE [r EXCEPT !.pc = "readdir", !.currentDir = r.inputPath, !.stack = <<>>]

\* the loop of processDirectory: the frames of the recursion, innermost last,
\* each with the items of its directory that are still to be processed
DropHead(stack) ==
  [stack EXCEPT ![Len(stack)] = [@ EXCEPT !.items = Tail(@)]]

\* a frame whose items are exhausted returns to its caller, whose current
\* item (the subdirectory) is then finished too
RECURSIVE Unwind(_)
Unwind(stack) ==
  IF stack = <<>> THEN <<>>
  ELSE IF Last(stack).items # <<>> THEN stack
  ELSE IF Len(stack) = 1 THEN <<>>
  ELSE Unwind(DropHead(Front(stack)))

\* the for loop goes on with the next item, or processDirectory returns
LoopOn(r, stack) ==
  LET rest == Unwind(stack)
  IN [r EXCEPT !.stack = rest,
               !.pc = IF rest = <<>> THEN AfterConversion(r) ELSE "pd_stat"]

NextItem(r) == LoopOn(r, DropHead(r.stack))

\* after processFile returned
AfterProcessFile(r) ==
  IF r.isFile THEN [r EXCEPT !.pc = AfterConversion(r)] ELSE NextItem(r)

\* the names of the entries of a directory
Entries(dir) ==
  {Last(p) : p \in {q \in dirs \cup DOMAIN files : q # <<>> /\ Front(q) = dir}}

\* fsPromises.readdir returns the entries in an order of the file system's
Orders(S) ==
  {s \in [1..Cardinality(S) -> S] : \A j, k \in 1..Cardinality(S) : s[j] = s[k] => j = k}

\* mkdir -p succeeds on an existing directory, fails when a name on the way
\* is a regular file, and can fail for a reason of the file system's
MkdirOutcomes(path) ==
  IF path \in dirs THEN {TRUE}
  ELSE IF \E a \in Ancestors(path) : a \in DOMAIN files THEN {FALSE}
  ELSE BOOLEAN

\* fsPromises.rm(path, {recursive, force})
RemoveDirs(path) == {d \in dirs : ~IsPrefix(path, d)}
RemoveFiles(path) ==
  [f \in {g \in DOMAIN files : ~IsPrefix(path, g)} |-> files[f]]

\* the answers of the user at the prompt
Answers == {<<"y">>, <<"Y","e","s">>, <<"n">>, <<>>}

\* confirmAction resolves answer.toLowerCase().startsWith('y')
Confirmed(answer) == StartsWith(ToLowerCase(answer), <<"y">>)

\* a plausible slip: the extension is appended without looking
ArchivePathAppended(output) ==
  LET given == IF output = <<>> THEN DefaultArchive ELSE output
  IN Front(given) \o <<Last(given) \o ZipExt>>

\* the archive path of archive mode
ArchivePath(output) ==
  LET given == IF output = <<>> THEN DefaultArchive ELSE output
  IN IF EndsWith(Last(given), ZipExt) THEN given
     ELSE Front(given) \o <<Last(given) \o ZipExt>>

\* the output root of plain mode
PlainOutput(output) == IF output = <<>> THEN DefaultOutput ELSE output

\* the bytes sharp writes for a target format
EncodedBytes(format) ==
  LET sharpFormat == IF format = JPEG THEN JPG ELSE format
  IN IF sharpFormat = JPG THEN JpgBytes
     ELSE IF sharpFormat = PNG THEN PngBytes ELSE WebpBytes

(***************************************************************************)
(* convertImages: validation and the stat of the input.                     *)
(***************************************************************************)
\* a plausible slip: the input is examined before the options are validated
StatThenValidate(i) ==
  LET r == inv[i]
      format == ToLowerCase(r.options.format)
      seen == [r EXCEPT !.format = format, !.calls = Call(@, "stat")]
  IN /\ r.pc = "start"
     /\ inv' = [inv EXCEPT ![i] =
          IF ~Exists(r.inputPath)
          THEN [seen EXCEPT !.pc = "failed", !.error = "InputNotFound"]
          ELSE IF ~validateFormat(format)
          THEN [seen EXCEPT !.pc = "failed", !.error = "UnsupportedFormat"]
          ELSE IF IsJpegTarget(format) /\ ~validateQuality(r.options.quality)
          THEN [seen EXCEPT !.pc = "failed", !.error = "InvalidQuality"]
          ELSE [seen EXCEPT !.pc = "stat",
                  !.quality = IF IsJpegTarget(format)
                              THEN parseInt(r.options.quality).num
                              ELSE DefaultQuality]]
     /\ UNCHANGED <<dirs, files, now, dirs0, files0, sniffed>>

\* lowers the format, validates it, validates the quality of a JPEG target
Validate(i) ==
  LET r == inv[i]
      format == ToLowerCase(r.options.format)
  IN /\ r.pc = "start"
     /\ inv' = [inv EXCEPT ![i] =
          IF ~validateFormat(format)
          THEN [r EXCEPT !.pc = "failed", !.format = format,
                         !.error = "UnsupportedFormat"]
          ELSE IF IsJpegTarget(format) /\ ~validateQuality(r.options.quality)
          THEN [r EXCEPT !.pc = "failed", !.format = format,
                         !.error = "InvalidQuality"]
          ELSE [r EXCEPT !.pc = "stat", !.format = format,
                  !.quality = IF IsJpegTarget(format)
                              THEN parseInt(r.options.quality).num
                              ELSE DefaultQuality]]
     /\ UNCHANGED <<dirs, files, now, dirs0, files0, sniffed>>

\* stat of the input, then the choice of the output root: in archive mode
\* the workspace named after Date.now(), else the output directory
StatInput(i) ==
  LET r == inv[i]
  IN /\ r.pc = "stat"
     /\ inv' = [inv EXCEPT ![i] =
          IF ~Exists(r.inputPath) THEN Throw(r, "InputNotFound", "stat")
          ELSE IF r.options.zip
          THEN [r EXCEPT !.pc = "access", !.calls = Call(@, "stat"),
                         !.isFile = r.inputPath \in DOMAIN files,
                         !.tempDir = TempDirAt(now),
                         !.effectiveOutputDir = ArchivePath(r.options.output),
                         !.outputDir = TempDirAt(now)]
          ELSE [r EXCEPT !.pc = "access", !.calls = Call(@, "stat"),
                         !.isFile = r.inputPath \in DOMAIN files,
                         !.effectiveOutputDir = PlainOutput(r.options.output),
                         !.outputDir = PlainOutput(r.options.output)]]
     /\ UNCHANGED <<dirs, files, now, dirs0, files0, sniffed>>

(***************************************************************************)
(* ensureOutputDirectory.                                                   *)
(***************************************************************************)
\* fsPromises.access: a failure is caught by the catch clause, which creates
\* the directory
Access(i) ==
  LET r == inv[i]
  IN /\ r.pc = "access"
     /\ inv' = [inv EXCEPT ![i] =
          [r EXCEPT !.calls = Call(@, "access"),
                    !.pc = IF Exists(r.outputDir) THEN "prompt" ELSE "mkdir"]]
     /\ UNCHANGED <<dirs, files, now, dirs0, files0, sniffed>>

\* what the refusal of the user leads to: the Error is thrown inside the try
\* block, so the catch clause of ensureOutputDirectory takes it
OnDeclined(r) == [r EXCEPT !.pc = "mkdir", !.declined = TRUE]

\* confirmAction, and the throw when the user declines
Confirm(i) ==
  LET r == [inv[i] EXCEPT !.calls = Call(@, "prompt")]
  IN /\ r.pc = "prompt"
     /\ \E answer \in Answers :
          inv' = [inv EXCEPT ![i] =
            IF Confirmed(answer) THEN AfterEnsure(r) ELSE OnDeclined(r)]
     /\ UNCHANGED <<dirs, files, now, dirs0, files0, sniffed>>

\* fsPromises.mkdir(outputDir, {recursive: true}) of the catch clause
MkdirOutput(i) ==
  LET r == inv[i]
  IN /\ r.pc = "mkdir"
     /\ \E ok \in MkdirOutcomes(r.outputDir) :
          IF ok
          THEN /\ dirs' = dirs \cup Ancestors(r.outputDir)
               /\ inv' = [inv EXCEPT ![i] =
                    AfterEnsure([r EXCEPT !.calls = Call(@, "mkdir")])]
          ELSE /\ dirs' = dirs
               /\ inv' = [inv EXCEPT ![i] = Throw(r, "MkdirFailure", "mkdir")]
     /\ UNCHANGED <<files, now, dirs0, files0, sniffed>>

(***************************************************************************)
(* Single file mode.                                                        *)
(***************************************************************************)
\* a plausible slip: a single file of unknown format is skipped, as the
\* walk skips one
SkipUnknownSingle(r) ==
  [r EXCEPT !.pc = AfterConversion(r), !.calls = Call(@, "sniff")]

\* a single input file of unknown format: convertImages throws
OnUnknownSingle(r) == Throw(r, "UnsupportedFileFormat", "sniff")

\* the sniff of convertImages on a single input file; the file is its own
\* base for processFile
SniffSingle(i) ==
  LET r == inv[i]
  IN /\ r.pc = "single"
     /\ inv' = [inv EXCEPT ![i] =
          IF getImageFormat(files, r.inputPath) = "null"
          THEN OnUnknownSingle(r)
          ELSE [r EXCEPT !.pc = "pf_sniff", !.calls = Call(@, "sniff"),
                         !.filePath = r.inputPath,
                         !.baseInputDir = r.inputPath,
                         !.handed = Append(@, r.inputPath)]]
     /\ UNCHANGED <<dirs, files, now, dirs0, files0, sniffed>>

(***************************************************************************)
(* processFile.                                                             *)
(***************************************************************************)
\* the name of the output file: the base name without its extension, then
\* "." and the target format
outputFileName(inputName, format) ==
  basename(inputName, extname(inputName)) \o <<".">> \o format

\* the directory of the input relative to the base
relativeDir(baseInputDir, inputPath) == dirname(relative(baseInputDir, inputPath))

\* the sniff of processFile and the computation of the output directory
ProcessFileSniff(i) ==
  LET r == [inv[i] EXCEPT !.calls = Call(@, "sniff")]
      rel == relativeDir(r.baseInputDir, r.filePath)
  IN /\ r.pc = "pf_sniff"
     /\ inv' = [inv EXCEPT ![i] =
          IF getImageFormat(files, r.filePath) = "null" THEN AfterProcessFile(r)
          ELSE IF rel # <<>>
          THEN [r EXCEPT !.pc = "pf_mkdir", !.outputFileDir = join(r.outputDir, rel)]
          ELSE [r EXCEPT !.pc = "pf_convert", !.outputFileDir = r.outputDir]]
     /\ UNCHANGED <<dirs, files, now, dirs0, files0, sniffed>>

\* fsPromises.mkdir(outputFileDir, {recursive: true})
ProcessFileMkdir(i) ==
  LET r == inv[i]
  IN /\ r.pc = "pf_mkdir"
     /\ \E ok \in MkdirOutcomes(r.outputFileDir) :
          IF ok
          THEN /\ dirs' = dirs \cup Ancestors(r.outputFileDir)
               /\ inv' = [inv EXCEPT ![i] =
                    [r EXCEPT !.pc = "pf_convert", !.calls = Call(@, "mkdir")]]
          ELSE /\ dirs' = dirs
               /\ inv' = [inv EXCEPT ![i] = Throw(r, "MkdirFailure", "mkdir")]
     /\ UNCHANGED <<files, now, dirs0, files0, sniffed>>

\* sharp cannot read a missing input, write into a missing directory, write
\* over a directory, or write the file it reads
EncodePossible(inputPath, outputPath) ==
  /\ inputPath \in DOMAIN files
  /\ IsDirectory(Front(outputPath))
  /\ outputPath \notin dirs
  /\ outputPath # inputPath

\* a plausible slip: the failed file is logged and the walk goes on
SkipFailedFile(r) == AfterProcessFile([r EXCEPT !.calls = Call(@, "encode")])

\* the error of convertImage is not caught by processFile nor by
\* processDirectory
OnEncodeFailure(r) == Throw(r, "EncodeFailure", "encode")

\* convertImage: sharp reads the input and writes the output file
ProcessFileConvert(i) ==
  LET r == inv[i]
      outputPath == join(r.outputFileDir, <<outputFileName(Last(r.filePath), r.format)>>)
      called == [r EXCEPT !.outputPath = outputPath, !.encoded = Append(@, r.filePath)]
  IN /\ r.pc = "pf_convert"
     /\ \E ok \in BOOLEAN :
          IF ok /\ EncodePossible(r.filePath, outputPath)
          THEN /\ files' = [f \in DOMAIN files \cup {outputPath} |->
                              IF f = outputPath THEN EncodedBytes(r.format) ELSE files[f]]
               /\ inv' = [inv EXCEPT ![i] =
                    AfterProcessFile([called EXCEPT !.calls = Call(@, "encode"),
                                                   !.written = Append(@, outputPath)])]
          ELSE /\ files' = files
               /\ inv' = [inv EXCEPT ![i] = OnEncodeFailure(called)]
     /\ UNCHANGED <<dirs, now, dirs0, files0, sniffed>>

(***************************************************************************)
(* processDirectory.                                                        *)
(***************************************************************************)
\* fsPromises.readdir(currentDir): a new frame of the recursion
Readdir(i) ==
  LET r == inv[i]
  IN /\ r.pc = "readdir"
     /\ IF ~IsDirectory(r.currentDir)
        THEN inv' = [inv EXCEPT ![i] = Throw(r, "ENOENT", "readdir")]
        ELSE \E items \in Orders(Entries(r.currentDir)) :
               inv' = [inv EXCEPT ![i] =
                 LoopOn([r EXCEPT !.calls = Call(@, "readdir")],
                        Append(r.stack, [dir |-> r.currentDir, items |-> items]))]
     /\ UNCHANGED <<dirs, files, now, dirs0, files0, sniffed>>

DescendAlways(recursive) == TRUE

DescendNever(recursive) == FALSE

\* whether a subdirectory is walked
Descend(recursive) == recursive

\* fsPromises.stat of the next item: a directory is walked or skipped, a
\* file goes to the sniffer
StatItem(i) ==
  LET r == inv[i]
      top == Last(r.stack)
      inputPath == join(top.dir, <<Head(top.items)>>)
      called == [r EXCEPT !.calls = Call(@, "stat")]
  IN /\ r.pc = "pd_stat"
     /\ inv' = [inv EXCEPT ![i] =
          IF ~Exists(inputPath) THEN Throw(r, "ENOENT", "stat")
          ELSE IF IsDirectory(inputPath)
          THEN IF Descend(r.options.recursive)
               THEN [called EXCEPT !.pc = "readdir", !.currentDir = inputPath]
               ELSE NextItem(called)
          ELSE [called EXCEPT !.pc = "pd_sniff", !.filePath = inputPath]]
     /\ UNCHANGED <<dirs, files, now, dirs0, files0, sniffed>>

\* a plausible slip: the directory being read is taken as the base
BaseIsCurrentDir(r) == Last(r.stack).dir

\* the base directory processDirectory hands to processFile: the one it was
\* given, the input root, at every depth
BaseOfWalk(r) == r.inputPath

\* the sniff of processDirectory: a file of a known format goes to processFile
DirectorySniff(i) ==
  LET r == [inv[i] EXCEPT !.calls = Call(@, "sniff")]
  IN /\ r.pc = "pd_sniff"
     /\ inv' = [inv EXCEPT ![i] =
          IF getImageFormat(files, r.filePath) # "null"
          THEN [r EXCEPT !.pc = "pf_sniff", !.baseInputDir = BaseOfWalk(r),
                         !.handed = Append(@, r.filePath)]
          ELSE NextItem(r)]
     /\ UNCHANGED <<dirs, files, now, dirs0, files0, sniffed>>

(***************************************************************************)
(* Archive mode: createZipArchive and the removal of the workspace.         *)
(***************************************************************************)
\* createWriteStream can open the archive
ArchiveWritable(archive) == IsDirectory(Front(archive)) /\ archive \notin dirs

\* createZipArchive: the promise resolves on the close of the output stream
\* and rejects on an error of the archiver. An error of the output stream
\* has no listener of the code's: depending on the stream library under the
\* archiver, pipe either emits it again, and it is thrown out of the event
\* loop so that neither continuation of convertImages runs, or drops it, and
\* the close that follows resolves the promise with no archive written
CreateZipArchive(i) ==
  LET r == [inv[i] EXCEPT !.calls = Call(@, "zip")]
      archive == r.effectiveOutputDir
  IN /\ r.pc = "zip"
     /\ IF ~ArchiveWritable(archive)
        THEN /\ files' = files
             /\ \E thrown \in BOOLEAN :
                  inv' = [inv EXCEPT ![i] =
                    IF thrown
                    THEN [r EXCEPT !.pc = "crashed", !.error = "UncaughtStreamError"]
                    ELSE [r EXCEPT !.pc = "rm"]]
        ELSE \E ok \in BOOLEAN :
               /\ files' = [f \in DOMAIN files \cup {archive} |->
                              IF f = archive
                              THEN IF ok THEN ZipBytes ELSE <<>>
                              ELSE files[f]]
               /\ inv' = [inv EXCEPT ![i] =
                    IF ok THEN [r EXCEPT !.pc = "rm", !.archived = TRUE]
                    ELSE [r EXCEPT !.pc = "rm_err", !.error = "ArchiveFailure"]]
     /\ UNCHANGED <<dirs, now, dirs0, files0, sniffed>>

\* fsPromises.rm(tempDir, {recursive: true, force: true}) after the archive
\* was written
RemoveTempDir(i) ==
  LET r == inv[i]
  IN /\ r.pc = "rm"
     /\ dirs' = RemoveDirs(r.tempDir)
     /\ files' = RemoveFiles(r.tempDir)
     /\ inv' = [inv EXCEPT ![i] = [r EXCEPT !.pc = "done", !.calls = Call(@, "rm")]]
     /\ UNCHANGED <<now, dirs0, files0, sniffed>>

\* the catch clause: the same removal, then the error is thrown again
RemoveTempDirOnError(i) ==
  LET r == inv[i]
  IN /\ r.pc = "rm_err"
     /\ dirs' = RemoveDirs(r.tempDir)
     /\ files' = RemoveFiles(r.tempDir)
     /\ inv' = [inv EXCEPT ![i] = [r EXCEPT !.pc = "failed", !.calls = Call(@, "rm")]]
     /\ UNCHANGED <<now, dirs0, files0, sniffed>>

\* time passes; the clock matters only until the last invocation read it
Tick ==
  /\ now < MaxClock
  /\ \E i \in Invocations : inv[i].pc \in {"start", "stat"}
  /\ now' = now + 1
  /\ UNCHANGED <<inv, dirs, files, dirs0, files0, sniffed>>

(***************************************************************************)
(* Specifications.                                                          *)
(***************************************************************************)
ConvertOptions(formats, qualities, outputs, recursives, zips) ==
  [format : formats, quality : qualities, output : outputs,
   recursive : recursives, zip : zips]

\* the input tree: a file at the top, a file in a subdirectory and, when
\* deep, a file two levels down
InputTree(a, deep) ==
  [f \in {FileA, FileB} \cup (IF deep THEN {FileC} ELSE {}) |->
     IF f = FileA THEN a ELSE IF f = FileB THEN WebpBytes ELSE JpgBytes]

\* no path has been given to the sniffers
NoProbe == [path |-> <<>>, kind |-> "missing", content |-> <<>>,
            utils |-> "unset", pipeline |-> "unset"]

\* one invocation on the input tree, possibly with an existing output
\* directory and a workspace that an earlier run left behind
Init ==
  /\ now = 0
  /\ sniffed = NoProbe
  /\ \E a \in {PngBytes, TextBytes}, deep \in BOOLEAN :
       /\ files = InputTree(a, deep)
       /\ \E extra \in SUBSET {DirOut, TempDirAt(0)} :
            dirs = {DirIn, DirSub} \cup (IF deep THEN {DirDeep} ELSE {}) \cup extra
  /\ files0 = files
  /\ dirs0 = dirs
  /\ \E inputPath \in {DirIn, FileA, PathMissing} :
       \E options \in ConvertOptions({<<"P","n","g">>, <<"j","p","e","g">>, <<"G","I","F">>},
                                     {<<"9","5">>, <<"0">>},
                                     {<<>>, DirOut, DirSub, PathRes},
                                     BOOLEAN, BOOLEAN) :
         inv = [i \in Invocations |->
                  IF i = "A" THEN NewInvocation("start", inputPath, options)
                  ELSE NewInvocation("off", inputPath, options)]

Step(i) ==
  \/ Validate(i)
  \/ StatInput(i)
  \/ Access(i)
  \/ Confirm(i)
  \/ MkdirOutput(i)
  \/ SniffSingle(i)
  \/ ProcessFileSniff(i)
  \/ ProcessFileMkdir(i)
  \/ ProcessFileConvert(i)
  \/ Readdir(i)
  \/ StatItem(i)
  \/ DirectorySniff(i)
  \/ CreateZipArchive(i)
  \/ RemoveTempDir(i)
  \/ RemoveTempDirOnError(i)

Next == (\E i \in Invocations : Step(i)) \/ Tick

Spec == Init /\ [][Next]_vars

\* two invocations in archive mode in the same working directory, started
\* together: one on the input directory, one on a single file
InitConc ==
  /\ now = 0
  /\ sniffed = NoProbe
  /\ files = InputTree(PngBytes, FALSE)
  /\ dirs = {DirIn, DirSub}
  /\ files0 = files
  /\ dirs0 = dirs
  /\ inv = [i \in Invocations |->
             IF i = "A"
             THEN NewInvocation("start", DirIn,
                    [format |-> PNG, quality |-> <<"9","5">>, output |-> <<>>,
                     recursive |-> TRUE, zip |-> TRUE])
             ELSE NewInvocation("start", FileA,
                    [format |-> PNG, quality |-> <<"9","5">>, output |-> DirOut,
                     recursive |-> FALSE, zip |-> TRUE])]

SpecConc == InitConc /\ [][Next]_vars

\* the values of --format and --quality
FormatInputs ==
  {<<"J","P","G">>, <<"j","p","g">>, <<"P","n","g">>, <<"w","e","b","p">>,
   <<"j","p","e","g">>, <<"i","n","v","a","l","i","d">>, <<>>, <<"G","I","F">>}

QualityInputs ==
  {<<"0">>, <<"1">>, <<"1","0","0">>, <<"1","0","1">>, <<"9","5">>,
   <<"a","b","c">>, <<>>, <<"-","5">>, <<"5","x">>, <<"1",".","5">>}

\* one invocation, every format and quality, on a tree whose output
\* directory exists
InitValidate ==
  /\ now = 0
  /\ sniffed = NoProbe
  /\ files = InputTree(PngBytes, FALSE)
  /\ dirs = {DirIn, DirSub, DirOut, TempDirAt(0)}
  /\ files0 = files
  /\ dirs0 = dirs
  /\ \E inputPath \in {DirIn, FileA} :
       \E options \in ConvertOptions(FormatInputs, QualityInputs, {DirOut},
                                     {TRUE}, BOOLEAN) :
         inv = [i \in Invocations |->
                  IF i = "A" THEN NewInvocation("start", inputPath, options)
                  ELSE NewInvocation("off", inputPath, options)]

SpecValidate == InitValidate /\ [][Next]_vars

\* the same, with the user answering every prompt and every step of the
\* outside world completing
FairSpec == Spec /\ WF_vars(Next)

(***************************************************************************)
(* The two sniffers on one path.                                            *)
(***************************************************************************)
\* twelve leading bytes with a signature, or with the first bytes of one
\* only, and a text
HeaderSamples ==
  {JpgBytes, PngBytes, WebpBytes, TextBytes,
   <<255, 216, 0, 0, 0, 0, 0, 0, 0, 0, 0, 0>>,
   <<137, 80, 78, 71, 0, 0, 0, 0, 0, 0, 0, 0>>,
   <<82, 73, 70, 70, 36, 0, 0, 0, 87, 65, 86, 69>>,
   <<255, 0, 216, 255, 137, 80, 78, 71, 87, 69, 66, 80>>}

\* files of every length up to one byte more than the header
Contents ==
  {SubSeq(h \o <<32>>, 1, n) : h \in HeaderSamples, n \in 0..(HeaderLen + 1)}

NameText == <<"a", ".", "t", "x", "t">>

InitSniff ==
  /\ now = 0
  /\ files = InputTree(PngBytes, FALSE)
  /\ dirs = {DirIn, DirSub}
  /\ files0 = files
  /\ dirs0 = dirs
  /\ inv = [i \in Invocations |-> NewInvocation("off", DirIn,
              [format |-> PNG, quality |-> <<"9","5">>, output |-> <<>>,
               recursive |-> FALSE, zip |-> FALSE])]
  /\ \E path \in {FileA, <<NameIn, NameText>>}, kind \in Kinds, content \in Contents :
       /\ kind # "file" => content = <<>>
       /\ sniffed = [path |-> path, kind |-> kind, content |-> content,
                     utils |-> "unset", pipeline |-> "unset"]

\* a call of getImageFormat of utils/image
SniffWithUtils ==
  /\ sniffed.utils = "unset"
  /\ sniffed' = [sniffed EXCEPT !.utils = utilsGetImageFormat(sniffed.kind, sniffed.content)]
  /\ UNCHANGED <<inv, dirs, files, now, dirs0, files0>>

\* a call of getImageFormat of the pipeline
SniffWithPipeline ==
  /\ sniffed.pipeline = "unset"
  /\ sniffed' = [sniffed EXCEPT !.pipeline = pipelineGetImageFormat(sniffed.kind, sniffed.content)]
  /\ UNCHANGED <<inv, dirs, files, now, dirs0, files0>>

NextSniff == SniffWithUtils \/ SniffWithPipeline

SpecSniff == InitSniff /\ [][NextSniff]_vars

(***************************************************************************)
(* File names and output names of every shape.                              *)
(***************************************************************************)
NamePhoto == <<"p","h","o","t","o">>
NameTarGz == <<"a",".","t","a","r",".","g","z">>
NameHidden == <<".","h","i","d","d","e","n">>
NameDot == <<"a",".">>
NameUpper == <<"x",".","J","P","G">>
NameTwin == <<"a",".","w","e","b","p">>
NameResult == <<"r","e","s","u","l","t">>
NameOutZip == <<"o","u","t",".","z","i","p">>
NameUpperZip == <<"R",".","Z","I","P">>

FileNames == {NameA, NamePhoto, NameTarGz, NameHidden, NameDot, NameUpper}

OutputNames == {<<>>, <<NameResult>>, <<NameOutZip>>, <<NameUpperZip>>, DirOut}

\* a directory with a file of the given name and a.webp, and a file of the
\* given name in a subdirectory
NamedTree(name) ==
  [f \in {<<NameIn, name>>, <<NameIn, NameTwin>>, <<NameIn, NameSub, name>>} |->
     IF f = <<NameIn, name>> THEN PngBytes
     ELSE IF f = <<NameIn, NameTwin>> THEN WebpBytes ELSE JpgBytes]

\* one recursive invocation on the directory or on its first file
InitPaths ==
  /\ now = 0
  /\ sniffed = NoProbe
  /\ \E name \in FileNames :
       /\ files = NamedTree(name)
       /\ \E inputPath \in {DirIn, <<NameIn, name>>} :
            \E options \in ConvertOptions({PNG, JPEG}, {<<"9","5">>}, OutputNames,
                                          {TRUE}, BOOLEAN) :
              inv = [i \in Invocations |->
                       IF i = "A" THEN NewInvocation("start", inputPath, options)
                       ELSE NewInvocation("off", inputPath, options)]
  /\ \E extra \in SUBSET {DirOut} : dirs = {DirIn, DirSub} \cup extra
  /\ files0 = files
  /\ dirs0 = dirs

SpecPaths == InitPaths /\ [][Next]_vars

(***************************************************************************)
(* Properties.                                                              *)
(***************************************************************************)
Ended(i) == inv[i].pc \in {"done", "failed", "crashed"}

\* ensureOutputDirectory has returned: the steps after it have begun
WorkspaceReady(i) == inv[i].calls["sniff"] + inv[i].calls["readdir"] > 0

DirectoryMode(i) == inv[i].calls["stat"] > 0 /\ ~inv[i].isFile /\ inv[i].error # "InputNotFound"

\* how many times a path occurs in a sequence of paths
Occurrences(seq, path) == Cardinality({k \in DOMAIN seq : seq[k] = path})

\* C1: when the output root exists and the user declines the prompt, the
\* invocation fails with OperationCancelled, encode is never called and no
\* file is written
C1_DeclineCancels ==
  \A i \in Invocations :
    inv[i].declined =>
      /\ inv[i].calls["encode"] = 0
      /\ inv[i].written = <<>>
      /\ Ended(i) => inv[i].error = "OperationCancelled"

\* C2: in archive mode, when an invocation that created its workspace ends,
\* the workspace does not exist
C2_WorkspaceRemoved ==
  \A i \in Invocations :
    (inv[i].options.zip /\ Ended(i) /\ WorkspaceReady(i))
    => inv[i].tempDir \notin dirs

\* C3: a failure of the validation of the format or of the quality comes
\* before any access to the file system: no stat, access, prompt, mkdir,
\* readdir, sniff, encode, archive or removal has happened and the file
\* system is as it was, in plain mode and in archive mode
C3_ValidationBeforeFileSystem ==
  \A i \in Invocations :
    inv[i].error \in {"UnsupportedFormat", "InvalidQuality"} =>
      /\ inv[i].pc = "failed"
      /\ \A op \in Operations : inv[i].calls[op] = 0
      /\ dirs = dirs0 /\ files = files0

C3_Witness ==
  \E i \in Invocations :
    /\ inv[i].error = "InvalidQuality" /\ inv[i].options.zip
    /\ inv[i].pc = "failed" /\ ~Exists(inv[i].inputPath)

\* C4: without the recursive option every file handed to processFile is an
\* immediate entry of the walked root, no subdirectory is read, and the step
\* that meets a subdirectory raises no error and goes on with the loop
C4_NonRecursiveStaysAtTop ==
  /\ [](\A i \in Invocations :
          (DirectoryMode(i) /\ ~inv[i].options.recursive) =>
            /\ \A k \in DOMAIN inv[i].handed :
                 Front(inv[i].handed[k]) = inv[i].inputPath
            /\ \A k \in DOMAIN inv[i].encoded :
                 Front(inv[i].encoded[k]) = inv[i].inputPath
            /\ inv[i].calls["readdir"] <= 1
            /\ Len(inv[i].stack) <= 1)
  /\ [][\A i \in Invocations :
          (/\ inv[i].pc = "pd_stat" /\ ~inv[i].options.recursive
           /\ inv'[i] # inv[i]
           /\ join(Last(inv[i].stack).dir, <<Head(Last(inv[i].stack).items)>>) \in dirs)
          => /\ inv'[i].error = "None"
             /\ inv'[i].pc \in {"pd_stat", "done", "zip"}
             /\ inv'[i].handed = inv[i].handed]_vars

C4_Witness ==
  \E i \in Invocations :
    /\ DirectoryMode(i) /\ ~inv[i].options.recursive /\ inv[i].pc = "done"
    /\ DirDeep \in dirs0 /\ inv[i].inputPath = DirIn
    /\ inv[i].encoded = <<FileA>>
    /\ inv[i].calls["stat"] = 3

\* the walk of the input directory has returned to convertImages
WalkCompleted(i) ==
  /\ DirectoryMode(i)
  /\ \/ inv[i].pc \in {"zip", "rm", "done", "crashed"}
     \/ inv[i].error = "ArchiveFailure"

\* the files of the input tree that the sniffer of the pipeline knows
Convertible(i) ==
  {f \in DOMAIN files0 :
     IsPrefix(inv[i].inputPath, f) /\ SniffHeader(files0[f]) # "null"}

\* C5: with the recursive option and no failure, the walk ends and has
\* handed every file of the input tree that the sniffer knows, at every
\* depth, to processFile and to convertImage exactly once, with the input
\* root as the base of the output path at every depth
C5_RecursiveWalkComplete ==
  /\ [](\A i \in Invocations :
          (WalkCompleted(i) /\ inv[i].options.recursive) =>
            \A f \in Convertible(i) :
              /\ Occurrences(inv[i].handed, f) = 1
              /\ Occurrences(inv[i].encoded, f) = 1)
  /\ [](\A i \in Invocations :
          (DirectoryMode(i) /\ inv[i].pc \in {"pf_mkdir", "pf_convert"}) =>
            /\ inv[i].baseInputDir = inv[i].inputPath
            /\ inv[i].outputFileDir =
                 inv[i].outputDir \o SubSeq(inv[i].filePath, Len(inv[i].inputPath) + 1,
                                            Len(inv[i].filePath) - 1))
  /\ <>(\A i \in Invocations : Terminated(i))

C5_Witness ==
  \E i \in Invocations :
    /\ WalkCompleted(i) /\ inv[i].options.recursive /\ inv[i].pc = "done"
    /\ Convertible(i) = {FileA, FileB, FileC}
    /\ Len(inv[i].encoded) = 3

PriorFailures == {"MkdirFailure", "UnsupportedFileFormat", "EncodeFailure", "ENOENT"}

InWorkspace(i) ==
  /\ inv[i].options.zip
  /\ inv[i].tempDir # <<>>
  /\ ~Ended(i)

\* C8: the workspace of archive mode is a path that did not exist, and two
\* invocations whose lifetimes overlap have different workspaces
C8_WorkspacesDistinct ==
  /\ \A i \in Invocations : inv[i].options.zip => inv[i].pc # "prompt"
  /\ \A i, j \in Invocations :
       (i # j /\ InWorkspace(i) /\ InWorkspace(j)) => inv[i].tempDir # inv[j].tempDir

\* a string of decimal digits
DecimalDigits(s) == s # <<>> /\ \A k \in DOMAIN s : IsDigit(s[k])

\* an integer between 1 and 100, written in decimal
IntegerInRange(s) ==
  DecimalDigits(s) /\ DigitsValue(s, 0) >= 1 /\ DigitsValue(s, 0) <= 100

\* C9: for a jpg or jpeg target the quality strings that fail with
\* InvalidQuality are exactly those that are not an integer in [1,100]; for
\* a png or webp target no quality string fails
C9_QualityExactlyIntegers ==
  \A i \in Invocations :
    (inv[i].pc \notin {"start", "off"} /\ inv[i].error # "UnsupportedFormat") =>
      /\ inv[i].format \in {JPG, JPEG} =>
           (inv[i].error = "InvalidQuality" <=> ~IntegerInRange(inv[i].options.quality))
      /\ inv[i].format \in {PNG, WEBP} => inv[i].error # "InvalidQuality"

\* the formats that are accepted, as typed, and the token the later steps get
AcceptedFormats ==
  {<<<<"J","P","G">>, <<"j","p","g">>>>, <<<<"j","p","g">>, <<"j","p","g">>>>,
   <<<<"P","n","g">>, <<"p","n","g">>>>, <<<<"w","e","b","p">>, <<"w","e","b","p">>>>,
   <<<<"j","p","e","g">>, <<"j","p","e","g">>>>}

\* C10: the format is accepted exactly when its lower-cased value is jpg,
\* jpeg, png or webp ("JPG", "jpg", "Png", "webp" pass; "invalid", "" and
\* "GIF" fail with UnsupportedFormat), and the later steps work with the
\* lower-cased token: it is the extension of every file written
C10_FormatValidation ==
  \A i \in Invocations :
    inv[i].pc \notin {"start", "off"} =>
      /\ inv[i].error = "UnsupportedFormat" <=>
           ~(\E a \in AcceptedFormats : a[1] = inv[i].options.format)
      /\ inv[i].error = "UnsupportedFormat" <=>
           ([k \in DOMAIN inv[i].options.format |->
               LowerChar(inv[i].options.format[k])] \notin {JPG, JPEG, PNG, WEBP})
      /\ inv[i].error # "UnsupportedFormat" =>
           /\ <<inv[i].options.format, inv[i].format>> \in AcceptedFormats
           /\ \A k \in DOMAIN inv[i].written :
                EndsWith(Last(inv[i].written[k]), <<".">> \o inv[i].format)
                /\ \E a \in AcceptedFormats :
                     /\ a[1] = inv[i].options.format
                     /\ extname(Last(inv[i].written[k])) = <<".">> \o a[2]

C10_Witness ==
  \E i \in Invocations :
    /\ inv[i].options.format = <<"J","P","G">>
    /\ inv[i].pc = "done"
    /\ inv[i].written # <<>>
    /\ Last(inv[i].written[1]) = <<"a",".","j","p","g">>


(***************************************************************************)
(* The sniffers.                                                            *)
(***************************************************************************)
Begins(content, signature) ==
  /\ Len(content) >= Len(signature)
  /\ SubSeq(content, 1, Len(signature)) = signature

SignatureJpg == <<255, 216>>
SignaturePng == <<137, 80, 78, 71>>
SignatureRiff == <<82, 73, 70, 70>>
SignatureWebp == <<87, 69, 66, 80>>

IsWebp(content) ==
  /\ Begins(content, SignatureRiff)
  /\ Len(content) >= 12
  /\ SubSeq(content, 9, 12) = SignatureWebp

UtilsSniffed == sniffed.kind = "file" /\ sniffed.utils # "unset"

\* the classification by signature alone, in the order jpg, png, webp
BySignature(content) ==
  IF Begins(content, SignatureJpg) THEN "jpg"
  ELSE IF Begins(content, SignaturePng) THEN "png"
  ELSE IF IsWebp(content) THEN "webp"
  ELSE "null"

\* C12 as stated: the sniffer of utils/image returns jpg for every content
\* that begins FF D8, png for one that begins 89 50 4E 47, webp for RIFF at
\* 0-3 with WEBP at 8-11, in that order, and null for everything else
C12_SignatureDecides ==
  UtilsSniffed => sniffed.utils = BySignature(sniffed.content)

\* C12, amended: a file shorter than 4 bytes is null whatever it begins
\* with; a file of 4 bytes or more is jpg when it begins FF D8, else png when
\* it begins 89 50 4E 47, else webp when it has RIFF at 0-3 and WEBP at 8-11,
\* else null; the name of the file plays no part
C12_LengthThenSignature ==
  UtilsSniffed =>
    sniffed.utils = IF Len(sniffed.content) < 4 THEN "null"
                    ELSE BySignature(sniffed.content)

\* a file of three bytes that begins FF D8 has been sniffed
C12_Witness ==
  /\ UtilsSniffed
  /\ Len(sniffed.content) = 3
  /\ Begins(sniffed.content, SignatureJpg)
  /\ sniffed.utils = "null"

\* C13: neither sniffer raises: each call returns one of jpg, png, webp and
\* null, and null when the path is missing, a directory or unreadable
C13_SnifferNeverRaises ==
  /\ {sniffed.utils, sniffed.pipeline} \subseteq {"unset", "jpg", "png", "webp", "null"}
  /\ sniffed.kind # "file" => {sniffed.utils, sniffed.pipeline} \subseteq {"unset", "null"}

\* both sniffers have been called on a missing path
C13_Witness ==
  /\ sniffed.kind = "missing"
  /\ sniffed.utils = "null"
  /\ sniffed.pipeline = "null"

\* C16: the sniffer of utils/image and the sniffer of the pipeline return
\* the same format for every file content
C16_SniffersAgree ==
  (sniffed.kind = "file" /\ sniffed.utils # "unset" /\ sniffed.pipeline # "unset")
    => sniffed.utils = sniffed.pipeline


(***************************************************************************)
(* A single input file of unknown format.                                   *)
(***************************************************************************)
\* the input is a regular file whose content no signature matches, and
\* convertImages has sniffed it
UnknownSingleSniffed(i) ==
  /\ inv[i].isFile
  /\ inv[i].calls["sniff"] > 0
  /\ inv[i].inputPath \in DOMAIN files0
  /\ SniffHeader(files0[inv[i].inputPath]) = "null"

StemOf(name) ==
  CASE name = NameA -> <<"a">>
    [] name = NameB -> <<"b">>
    [] name = NameC -> <<"c">>
    [] name = NameTwin -> <<"a">>
    [] name = NamePhoto -> NamePhoto
    [] name = NameTarGz -> <<"a",".","t","a","r">>
    [] name = NameHidden -> NameHidden
    [] name = NameDot -> <<"a">>
    [] name = NameUpper -> <<"x">>
    [] OTHER -> <<"?">>

\* the root the outputs of an invocation go to
OutputRoot(i) ==
  IF inv[i].options.zip THEN inv[i].tempDir
  ELSE IF inv[i].options.output = <<>> THEN << <<"o","u","t","p","u","t">> >>
  ELSE inv[i].options.output

\* the directories between the input root and a file below it
Between(root, file) == SubSeq(file, Len(root) + 1, Len(file) - 1)

\* C11: the output path of a converted file is the output root, then the
\* directory of the file relative to the input root, then the name of the
\* file with its extension replaced by "." and the target format; a single
\* input file lands directly in the output root
C11_OutputPathMapping ==
  \A i \in Invocations :
    inv[i].encoded # <<>> =>
      LET file == inv[i].encoded[Len(inv[i].encoded)]
          name == StemOf(file[Len(file)]) \o <<".">> \o inv[i].format
      IN inv[i].outputPath =
           IF inv[i].isFile THEN OutputRoot(i) \o <<name>>
           ELSE OutputRoot(i) \o Between(inv[i].inputPath, file) \o <<name>>

\* in/sub/a.tar.gz has been written as out/sub/a.tar.png
C11_Witness ==
  \E i \in Invocations :
    /\ ~inv[i].isFile
    /\ inv[i].written # <<>>
    /\ inv[i].encoded[Len(inv[i].encoded)] = <<NameIn, NameSub, NameTarGz>>
    /\ inv[i].written[Len(inv[i].written)]
         = <<NameOut, NameSub, <<"a",".","t","a","r",".","p","n","g">> >>
    /\ inv[i].written[Len(inv[i].written)] \in DOMAIN files

(***************************************************************************)
(* The path of the archive.                                                 *)
(***************************************************************************)
ArchiveModeStarted(i) == inv[i].options.zip /\ inv[i].tempDir # <<>>

\* C15: the archive path of archive mode ends in ".zip": output.zip when no
\* output is given, the output itself when it ends in ".zip", otherwise the
\* output with ".zip" appended once
C15_ArchivePathEndsInZip ==
  \A i \in Invocations :
    ArchiveModeStarted(i) =>
      LET output == inv[i].options.output
          archive == inv[i].effectiveOutputDir
      IN /\ output = <<>> => archive = << <<"o","u","t","p","u","t",".","z","i","p">> >>
         /\ output = <<NameOutZip>> => archive = <<NameOutZip>>
         /\ output = <<NameResult>>
              => archive = << <<"r","e","s","u","l","t",".","z","i","p">> >>
         /\ output = <<NameUpperZip>>
              => archive = << <<"R",".","Z","I","P",".","z","i","p">> >>
         /\ output = DirOut => archive = << <<"o","u","t",".","z","i","p">> >>
         /\ inv[i].archived => archive \in DOMAIN files

\* the archive of an invocation with output "result" is result.zip
C15_Witness ==
  \E i \in Invocations :
    /\ inv[i].options.output = <<NameResult>>
    /\ inv[i].archived
    /\ << <<"r","e","s","u","l","t",".","z","i","p">> >> \in DOMAIN files

(***************************************************************************)
(* Collisions of output paths.                                              *)
(***************************************************************************)
\* C17: in a directory run no two converted inputs have the same output
\* path: no output file is written twice, and there are as many output
\* files as converted inputs
C17_OutputsDistinct ==
  \A i \in Invocations :
    ~inv[i].isFile =>
      \A j, k \in DOMAIN inv[i].written :
        j # k => inv[i].written[j] # inv[i].written[k]


(***************************************************************************)
(* Outputs taken as inputs.                                                 *)
(***************************************************************************)
\* C18: a directory run never hands to the encoder a file that the same
\* run wrote before, wherever the output root lies
C18_NoOwnOutputAsInput ==
  \A i \in Invocations :
    ~inv[i].isFile =>
      \A k \in DOMAIN inv[i].encoded, j \in DOMAIN inv[i].written :
        j < k => inv[i].encoded[k] # inv[i].written[j]

====
